---------------------------- MODULE Spec2Model ----------------------------
(***************************************************************************)
(* A model of comex_silver_tracker.py: one run downloads the COMEX silver  *)
(* stocks spreadsheet into a temp file, parses the report date and three   *)
(* totals out of it, skips when the ledger's last row carries the same     *)
(* date, and otherwise appends a derived row to the CSV ledger and moves   *)
(* the download into the archive folder under a dated name.                *)
(*                                                                         *)
(* Numbers.  A Python float is modelled as a record [nan, v]: v counts     *)
(* thousandths (the code rounds every stored value to 3 places), and nan   *)
(* is the IEEE not-a-number that float("nan") produces.  Spreadsheet cells *)
(* hold ten-thousandths so that round(x, 3) does something.                *)
(*                                                                         *)
(* Text.  A report date string matched by \d{1,2}/\d{1,2}/\d{4} is the     *)
(* triple of its three digit strings, each a sequence of digits, so that   *)
(* "1/5/2024" and "01/05/2024" are different strings of one calendar day.  *)
(***************************************************************************)
EXTENDS Integers, Sequences, FiniteSets, TLC

\* ------------------------------------------------------------- constants

\* iloc[0, 7]: the value column of the matched row (0-indexed).
ValueCol == 7

\* the label searched by get_clean_val, and the date marker
LblRegistered == "TOTAL REGISTERED"
LblEligible == "TOTAL ELIGIBLE"
LblCombined == "COMBINED TOTAL"
Marker == "Activity Date:"

\* ---------------------------------------------------------------- floats

Num(n) == [nan |-> FALSE, v |-> n]
NaN == [nan |-> TRUE, v |-> 0]

\* x - y on floats: not-a-number is contagious
Sub(x, y) == IF x.nan \/ y.nan THEN NaN ELSE Num(x.v - y.v)

\* x != 0 on floats: nan != 0 is True in Python
NonZero(x) == x.nan \/ x.v # 0

\* n / d rounded to the nearest integer, ties to the even one (Python's round)
RoundHalfEven(n, d) ==
    LET nn == IF d < 0 THEN -n ELSE n
        dd == IF d < 0 THEN -d ELSE d
        q == nn \div dd
        r == nn % dd
    IN  IF 2 * r < dd THEN q
        ELSE IF 2 * r > dd THEN q + 1
        ELSE IF q % 2 = 0 THEN q ELSE q + 1

\* round(x / 1_000_000, 3) and round(x / 1_000_000, 0), x in thousandths:
\* the result is again in thousandths
Million == 1000000
RoundMillions3(x) == IF x.nan THEN NaN ELSE Num(RoundHalfEven(x.v, Million))
RoundMillions0(x) ==
    IF x.nan THEN NaN ELSE Num(1000 * RoundHalfEven(x.v, Million * 1000))

\* ------------------------------------------------------------ date text

NoDate == <<>>

RECURSIVE DigitsToInt(_)
DigitsToInt(ds) ==
    IF ds = <<>> THEN 0
    ELSE 10 * DigitsToInt(SubSeq(ds, 1, Len(ds) - 1)) + ds[Len(ds)]

MonthOf(s) == DigitsToInt(s[1])
DayOf(s) == DigitsToInt(s[2])
YearOf(s) == DigitsToInt(s[3])

IsLeap(y) == (y % 4 = 0 /\ y % 100 # 0) \/ y % 400 = 0

DaysInMonth(m, y) ==
    IF m = 2 THEN (IF IsLeap(y) THEN 29 ELSE 28)
    ELSE IF m \in {4, 6, 9, 11} THEN 30 ELSE 31

\* datetime.strptime(s, "%m/%d/%Y") succeeds
StrptimeOk(s) ==
    /\ s # NoDate
    /\ MonthOf(s) \in 1..12
    /\ YearOf(s) >= 1
    /\ DayOf(s) \in 1..DaysInMonth(MonthOf(s), YearOf(s))

\* mutant: the day and the month swapped, as the comment above strftime has it
ArchiveName_day_month(s) == <<DigitsToInt(s[3]) % 100, DigitsToInt(s[2]), DigitsToInt(s[1])>>

\* dt_obj.strftime("Silver_Stocks.%y.%m.%d.xls"): the three zero-padded
\* two-digit fields, as numbers
ArchiveName(s) == <<YearOf(s) % 100, MonthOf(s), DayOf(s)>>

\* the calendar day of a valid date string, as an ordinal
DateOrd(s) == (YearOf(s) * 12 + (MonthOf(s) - 1)) * 31 + (DayOf(s) - 1)

\* ------------------------------------------------- the parsed spreadsheet

(***************************************************************************)
(* pd.read_excel(filename, header=None) is a rectangular frame: a sequence *)
(* of rows, each a sequence of cells, all of one width.  A cell is         *)
(*   blank : an empty cell, which pandas reads as the float nan;           *)
(*   num   : a numeric cell holding v ten-thousandths;                     *)
(*   text  : a string cell, described by what the code asks of it: the     *)
(*           labels it contains (case-insensitively), whether it contains  *)
(*           the marker, the date-shaped matches in it from left to right, *)
(*           and, when float() accepts it once commas, dollar signs and    *)
(*           outer blanks are gone (ok), the number v it spells.           *)
(***************************************************************************)
BlankCell == [k |-> "blank", v |-> 0, ok |-> TRUE, labels |-> {}, marker |-> FALSE, dates |-> <<>>]
NumCell(n) == [k |-> "num", v |-> n, ok |-> TRUE, labels |-> {}, marker |-> FALSE, dates |-> <<>>]
NumText(n) == [k |-> "text", v |-> n, ok |-> TRUE, labels |-> {}, marker |-> FALSE, dates |-> <<>>]
Text(ls, mk, ds) == [k |-> "text", v |-> 0, ok |-> FALSE, labels |-> ls, marker |-> mk, dates |-> ds]

RECURSIVE ConcatDates(_)
ConcatDates(row) ==
    IF row = <<>> THEN <<>> ELSE Head(row).dates \o ConcatDates(Tail(row))

\* "Activity Date:" in " ".join(row.astype(str))
RowHasMarker(row) == \E i \in 1..Len(row) : row[i].marker

\* the row-by-row date search of parse_xls, from row i on
RECURSIVE FindDate(_, _)
FindDate(df, i) ==
    IF i > Len(df) THEN NoDate
    ELSE IF RowHasMarker(df[i]) /\ ConcatDates(df[i]) # <<>>
         THEN Head(ConcatDates(df[i]))
         ELSE FindDate(df, i + 1)

\* one row of the mask: some cell of the row contains the label
RowHasLabel(row, label) == \E i \in 1..Len(row) : label \in row[i].labels

RECURSIVE MaskedRows(_, _)
MaskedRows(df, label) ==
    IF df = <<>> THEN <<>>
    ELSE (IF RowHasLabel(Head(df), label) THEN <<Head(df)>> ELSE <<>>)
         \o MaskedRows(Tail(df), label)

\* float(str(val).replace(',', '').replace('$', '').strip()): the float, or
\* a ValueError.  str(nan) is "nan", which float() accepts.
CellFloat(c) ==
    IF c.k = "blank" THEN [raised |-> FALSE, val |-> NaN]
    ELSE IF c.ok THEN [raised |-> FALSE, val |-> Num(c.v)]
    ELSE [raised |-> TRUE, val |-> Num(0)]

\* round(clean_num, 3) of a value in ten-thousandths, in thousandths
Round3(f) == IF f.nan THEN NaN ELSE Num(RoundHalfEven(f.v, 10))

get_clean_val(df, label) ==
    LET hits == MaskedRows(df, label)
    IN  IF hits = <<>> \/ Len(hits[1]) < ValueCol + 1
        THEN Num(0)                       \* IndexError
        ELSE LET f == CellFloat(hits[1][ValueCol + 1])
             IN  IF f.raised THEN Num(0)  \* ValueError
                 ELSE Round3(f.val)

parse_xls(df) ==
    [date |-> FindDate(df, 1),
     registered |-> get_clean_val(df, LblRegistered),
     eligible |-> get_clean_val(df, LblEligible),
     total |-> get_clean_val(df, LblCombined)]

\* ------------------------------------------------------- the ledger row

\* x / y * 100 rounded to `places` decimals, in units of 10^-places percent
\* (scale = 100 * 10^places); Python raises ZeroDivisionError on y = 0.0
PctDiv(x, y, scale) ==
    IF ~y.nan /\ y.v = 0 THEN [raised |-> "ZeroDivisionError", val |-> NaN]
    ELSE IF x.nan \/ y.nan THEN [raised |-> "", val |-> NaN]
    ELSE [raised |-> "", val |-> Num(RoundHalfEven(x.v * scale, y.v))]

\* mutant: the division without its guard
PctRegisteredOfTotal_unguarded(registered, total) ==
    LET q == PctDiv(registered, total, 10000)
    IN  [raised |-> q.raised, kind |-> "str", val |-> q.val]

\* f"{round((registered / total) * 100, 2)}%" if total != 0 else 0
PctRegisteredOfTotal(registered, total) ==
    IF NonZero(total)
    THEN LET q == PctDiv(registered, total, 10000)
         IN  [raised |-> q.raised, kind |-> "str", val |-> q.val]
    ELSE [raised |-> "", kind |-> "num", val |-> Num(0)]

\* f"{round(((total / initial_total) * 100), )}%" if initial_total != 0 else 1.000
\* round(x) without ndigits converts to int and raises ValueError on nan
PctOfStart(total, initial_total) ==
    IF NonZero(initial_total)
    THEN LET q == PctDiv(total, initial_total, 100)
         IN  [raised |-> IF q.raised # "" THEN q.raised
                         ELSE IF q.val.nan THEN "ValueError" ELSE "",
              kind |-> "str", val |-> q.val]
    ELSE [raised |-> "", kind |-> "num", val |-> Num(1000)]

Cell(p) == [kind |-> p.kind, val |-> p.val]

\* the new_row dictionary of update_master_csv, or the exception that
\* building it raises
new_row(snap, initial_reg, initial_total, last_reg, last_total) ==
    LET pr == PctRegisteredOfTotal(snap.registered, snap.total)
        ps == PctOfStart(snap.total, initial_total)
    IN  [raised |-> IF pr.raised # "" THEN pr.raised ELSE ps.raised,
         row |-> [ActivityDate |-> snap.date,
                  Registered |-> snap.registered,
                  RegiDailyChange |-> Sub(snap.registered, last_reg),
                  RegMonthlyChange |-> Sub(snap.registered, initial_reg),
                  RegMonthlyChangeM |-> RoundMillions3(Sub(snap.registered, initial_reg)),
                  Eligible |-> snap.eligible,
                  Total |-> snap.total,
                  DailyChange |-> Sub(snap.total, last_total),
                  MonthChange |-> Sub(snap.total, initial_total),
                  MonthChangeM |-> RoundMillions3(Sub(snap.total, initial_total)),
                  PctRegisteredOfTotal |-> Cell(pr),
                  TotalM |-> RoundMillions0(snap.total),
                  PctOfStart |-> Cell(ps)]]

\* ------------------------------------------------------------- the files

NoFile == [exists |-> FALSE, data |-> <<>>]
File(d) == [exists |-> TRUE, data |-> d]

\* master_df.to_csv(CSV_FILE, index=False) and pd.read_csv(CSV_FILE): the
\* file holds the frame's rows in order; an absent date is written as an
\* empty field and read back as nan
to_csv(df) == File(df)
read_csv(f) == f.data

\* mutant: only the new row is written back
pd_concat_new_only(df, row) == <<row>>

\* mutant: the new row is put first
pd_concat_prepend(df, row) == <<row>> \o df

\* pd.concat([master_df, pd.DataFrame([new_row])], ignore_index=True)
pd_concat(df, row) == Append(df, row)

\* mutant: the date is compared with the first row's, iloc[0]
last_entry_matches_first_row(df, d_date) ==
    /\ df[1].ActivityDate # NoDate
    /\ df[1].ActivityDate = d_date

\* mutant: the date is compared with the untouched cell, never equal to a string
last_entry_matches_never(df, d_date) == FALSE

\* str(master_df.iloc[-1]['Activity Date']).strip() == d_date.strip(), for a
\* d_date that is a string: an absent date reads back as nan, whose str is
\* "nan", never a date-shaped match; a match holds no blanks to strip
last_entry_matches(df, d_date) ==
    /\ df[Len(df)].ActivityDate # NoDate
    /\ df[Len(df)].ActivityDate = d_date

\* ------------------------------------------------------------ the inputs

\* runs start while the ledger holds fewer than MaxRows rows; tried frames
\* have at most MaxSheetRows rows; a narrow frame has NarrowWidth columns
MaxRows == 4
MaxSheetRows == 3
NarrowWidth == 3

Procs == {"A", "B"}

\* "1/5/2024", "01/05/2024", "1/6/2024" and "13/5/2024"
D1 == <<<<1>>, <<5>>, <<2, 0, 2, 4>>>>
D1p == <<<<0, 1>>, <<0, 5>>, <<2, 0, 2, 4>>>>
D2 == <<<<1>>, <<6>>, <<2, 0, 2, 4>>>>
Dbad == <<<<1, 3>>, <<5>>, <<2, 0, 2, 4>>>>
AllDates == {D1, D1p, D2, Dbad}

Junk == Text({}, FALSE, <<>>)
Label(l) == Text({l}, FALSE, <<>>)
DateLine(d) == Text({}, TRUE, <<d>>)

\* a row of the given width: its first cell, blanks, and (when the row is
\* wide enough) the cell in the value column
MkRow(first, val, width) ==
    [i \in 1..width |-> IF i = 1 THEN first
                        ELSE IF i = ValueCol + 1 THEN val ELSE BlankCell]

\* a report in the published layout
Report(dateRow, r, e, t) ==
    dateRow \o
    << MkRow(Label(LblRegistered), r, ValueCol + 1),
       MkRow(Label(LblEligible), e, ValueCol + 1),
       MkRow(Label(LblCombined), t, ValueCol + 1) >>

Dated(d) == << MkRow(DateLine(d), BlankCell, ValueCol + 1) >>

\* the downloads of the sequential runs: ordinary reports of three days, a
\* report of zeros, one with an impossible date, one without a date line,
\* and two with an empty value cell
SeqSheets ==
    { Report(Dated(D1), NumCell(30000), NumCell(20000), NumCell(50000)),
      Report(Dated(D2), NumText(10004), NumCell(30000), NumCell(40000)),
      Report(Dated(D1p), NumCell(0), NumCell(0), NumCell(0)),
      Report(Dated(Dbad), NumCell(10000), NumCell(10000), NumCell(20000)),
      Report(<<>>, NumCell(10000), NumCell(10000), NumCell(20000)),
      Report(Dated(D2), BlankCell, NumCell(20000), NumCell(20000)),
      Report(Dated(D1), NumCell(10000), NumCell(10000), BlankCell) }

\* the downloads of two overlapping runs: the same report date twice
ConcSheets ==
    { Report(Dated(D1), NumCell(30000), NumCell(20000), NumCell(50000)),
      Report(Dated(D1), NumCell(10000), NumCell(30000), NumCell(40000)) }

\* the frames parse_xls is tried on: every frame of at most MaxSheetRows
\* rows, narrow or of full width
ParseFirstCells ==
    {Label(LblRegistered), Label(LblEligible), Label(LblCombined), DateLine(D1), Junk}
ParseValueCells == {BlankCell, NumCell(12345), NumText(20000), Junk}
ParseRows(w) == {MkRow(f, v, w) : f \in ParseFirstCells, v \in ParseValueCells}
ParseSheets ==
    UNION { UNION { [1..n -> ParseRows(w)] : n \in 0..MaxSheetRows }
            : w \in {NarrowWidth, ValueCol + 1} }

\* ------------------------------------------------------------- the state

VARIABLES
    csv,         \* CSV_FILE, the ledger
    temp,        \* XLS_FILENAME, the shared temp download
    historic,    \* whether HISTORIC_FOLDER exists
    archive,     \* the files of HISTORIC_FOLDER, by archive name
    pc,          \* where each run stands
    loc,         \* each run's local variables
    run0,        \* history: the ledger and the archive when each run
                 \* started, and the file it downloaded
    overlapped,  \* history: a run started while another was under way
    inOrder      \* history: every row was appended with a valid date not
                 \* earlier than that of the row then last

vars == <<csv, temp, historic, archive, pc, loc, run0, overlapped, inOrder>>

ArchiveNames == {ArchiveName(d) : d \in {x \in AllDates : StrptimeOk(x)}}

NoSnap == [date |-> NoDate, registered |-> Num(0), eligible |-> Num(0), total |-> Num(0)]
NoLocals == [snap |-> NoSnap, df |-> <<>>, fresh |-> FALSE, final_name |-> <<>>,
             err |-> "", what |-> ""]

Terminal(s) == s \in {"idle", "done", "exists", "error"}

\* the ledger as a frame
Ledger == read_csv(csv)

\* before the first run the ledger file is absent, or present with its header
\* line and no row; the archive folder may be missing
Init ==
    /\ csv \in {NoFile, File(<<>>)}
    /\ temp = NoFile
    /\ historic \in BOOLEAN
    /\ archive = [n \in ArchiveNames |-> NoFile]
    /\ pc = [p \in Procs |-> "idle"]
    /\ loc = [p \in Procs |-> NoLocals]
    /\ run0 = [p \in Procs |-> [csv |-> csv, archive |-> archive, sheet |-> NoFile]]
    /\ overlapped = FALSE
    /\ inOrder = TRUE

\* the top-level handler: print(f"Error: {e}")
Raise(p, e, w) ==
    /\ pc' = [pc EXCEPT ![p] = "error"]
    /\ loc' = [loc EXCEPT ![p].err = e, ![p].what = w]

Goto(p, s) == pc' = [pc EXCEPT ![p] = s]

\* download_file(URL, XLS_FILENAME): a new run starts
Download(p, sheets) ==
    /\ Terminal(pc[p])
    /\ Len(Ledger) < MaxRows
    /\ overlapped' = (overlapped \/ \E q \in Procs \ {p} : ~Terminal(pc[q]))
    /\ \E ok \in BOOLEAN : \E s \in sheets :
         /\ run0' = [run0 EXCEPT ![p] = [csv |-> csv, archive |-> archive,
                                         sheet |-> IF ok THEN File(s) ELSE NoFile]]
         /\ IF ok
            THEN /\ temp' = File(s)
                 /\ pc' = [pc EXCEPT ![p] = "parse"]
                 /\ loc' = [loc EXCEPT ![p] = NoLocals]
            ELSE /\ temp' = temp
                 /\ pc' = [pc EXCEPT ![p] = "error"]
                 /\ loc' = [loc EXCEPT ![p] =
                               [NoLocals EXCEPT !.err = "HTTPError", !.what = "fetch"]]
    /\ UNCHANGED <<csv, historic, archive, inOrder>>

\* d_date, reg, elig, tot = parse_xls(XLS_FILENAME)
Parse(p) ==
    /\ pc[p] = "parse"
    /\ IF temp.exists
       THEN /\ loc' = [loc EXCEPT ![p].snap = parse_xls(temp.data)]
            /\ Goto(p, "check")
       ELSE Raise(p, "FileNotFoundError", "read")
    /\ UNCHANGED <<csv, temp, historic, archive, run0, overlapped, inOrder>>

\* if os.path.exists(CSV_FILE):
Check(p) ==
    /\ pc[p] = "check"
    /\ Goto(p, IF csv.exists THEN "check_read" ELSE "upd_exists")
    /\ UNCHANGED <<csv, temp, historic, archive, loc, run0, overlapped, inOrder>>

\* master_df = pd.read_csv(CSV_FILE) and the comparison with the last row
CheckRead(p) ==
    /\ pc[p] = "check_read"
    /\ LET df == read_csv(csv)
       IN  IF df = <<>> THEN Goto(p, "upd_exists") /\ loc' = loc
           ELSE IF loc[p].snap.date = NoDate THEN Raise(p, "AttributeError", "date")
           ELSE IF last_entry_matches(df, loc[p].snap.date)
                THEN Goto(p, "remove_temp") /\ loc' = loc
                ELSE Goto(p, "upd_exists") /\ loc' = loc
    /\ UNCHANGED <<csv, temp, historic, archive, run0, overlapped, inOrder>>

\* os.remove(XLS_FILENAME); exit()
RemoveTemp(p) ==
    /\ pc[p] = "remove_temp"
    /\ IF temp.exists
       THEN temp' = NoFile /\ Goto(p, "exists") /\ loc' = loc
       ELSE temp' = temp /\ Raise(p, "FileNotFoundError", "temp")
    /\ UNCHANGED <<csv, historic, archive, run0, overlapped, inOrder>>

\* update_master_csv: if not os.path.exists(CSV_FILE)
UpdExists(p) ==
    /\ pc[p] = "upd_exists"
    /\ IF ~csv.exists
       THEN /\ loc' = [loc EXCEPT ![p].df = <<>>, ![p].fresh = TRUE]
            /\ Goto(p, "upd_write")
       ELSE loc' = loc /\ Goto(p, "upd_read")
    /\ UNCHANGED <<csv, temp, historic, archive, run0, overlapped, inOrder>>

\* update_master_csv: master_df = pd.read_csv(CSV_FILE) and the four iloc reads
UpdRead(p) ==
    /\ pc[p] = "upd_read"
    /\ LET df == read_csv(csv)
       IN  IF df = <<>> THEN Raise(p, "IndexError", "ledger")
           ELSE /\ loc' = [loc EXCEPT ![p].df = df, ![p].fresh = FALSE]
                /\ Goto(p, "upd_write")
    /\ UNCHANGED <<csv, temp, historic, archive, run0, overlapped, inOrder>>

\* mutant: the anchor is read from the last row, iloc[-1], like the comparator
updated_frame_anchor_last(l) ==
    LET last == IF l.fresh THEN l.snap
                ELSE [registered |-> l.df[Len(l.df)].Registered,
                      total |-> l.df[Len(l.df)].Total]
        nr == new_row(l.snap, last.registered, last.total, last.registered, last.total)
    IN  [raised |-> nr.raised, df |-> pd_concat(l.df, nr.row)]

\* the frame update_master_csv writes back, or the exception raised first
updated_frame(l) ==
    LET first == IF l.fresh THEN l.snap
                 ELSE [registered |-> l.df[1].Registered, total |-> l.df[1].Total]
        last == IF l.fresh THEN l.snap
                ELSE [registered |-> l.df[Len(l.df)].Registered,
                      total |-> l.df[Len(l.df)].Total]
        nr == new_row(l.snap, first.registered, first.total, last.registered, last.total)
    IN  [raised |-> nr.raised, df |-> pd_concat(l.df, nr.row)]

\* the row is appended with a valid date not earlier than the last row's
AppendedInOrder(l) ==
    /\ updated_frame(l).raised = ""
       => /\ StrptimeOk(l.snap.date)
          /\ l.df # <<>> =>
                /\ StrptimeOk(l.df[Len(l.df)].ActivityDate)
                /\ DateOrd(l.df[Len(l.df)].ActivityDate) <= DateOrd(l.snap.date)

\* update_master_csv: new_row, pd.concat and to_csv
UpdWrite(p) ==
    /\ pc[p] = "upd_write"
    /\ LET u == updated_frame(loc[p])
       IN  IF u.raised # "" THEN csv' = csv /\ Raise(p, u.raised, "row")
           ELSE csv' = to_csv(u.df) /\ Goto(p, "archive_name") /\ loc' = loc
    /\ inOrder' = (inOrder /\ AppendedInOrder(loc[p]))
    /\ UNCHANGED <<temp, historic, archive, run0, overlapped>>

\* update_master_csv: strptime and strftime; then, back in the main block,
\* os.path.exists(HISTORIC_FOLDER + "/" + final_name)
ArchiveExists(p) ==
    /\ pc[p] = "archive_name"
    /\ LET d == loc[p].snap.date
       IN  IF d = NoDate THEN Raise(p, "TypeError", "date")
           ELSE IF ~StrptimeOk(d) THEN Raise(p, "ValueError", "date")
           ELSE /\ loc' = [loc EXCEPT ![p].final_name = ArchiveName(d)]
                /\ Goto(p, IF historic /\ archive[ArchiveName(d)].exists
                           THEN "archive_remove" ELSE "rename")
    /\ UNCHANGED <<csv, temp, historic, archive, run0, overlapped, inOrder>>

\* os.remove(HISTORIC_FOLDER + "/" + final_name)
ArchiveRemove(p) ==
    /\ pc[p] = "archive_remove"
    /\ IF archive[loc[p].final_name].exists
       THEN /\ archive' = [archive EXCEPT ![loc[p].final_name] = NoFile]
            /\ Goto(p, "rename") /\ loc' = loc
       ELSE archive' = archive /\ Raise(p, "FileNotFoundError", "archived")
    /\ UNCHANGED <<csv, temp, historic, run0, overlapped, inOrder>>

\* os.rename(XLS_FILENAME, HISTORIC_FOLDER + "/" + final_name); print("Done!")
\* (POSIX rename: an existing target is replaced)
Rename(p) ==
    /\ pc[p] = "rename"
    /\ IF ~temp.exists
       THEN UNCHANGED <<temp, archive>> /\ Raise(p, "FileNotFoundError", "temp")
       ELSE IF ~historic
       THEN UNCHANGED <<temp, archive>> /\ Raise(p, "FileNotFoundError", "historic")
       ELSE /\ archive' = [archive EXCEPT ![loc[p].final_name] = temp]
            /\ temp' = NoFile
            /\ Goto(p, "done") /\ loc' = loc
    /\ UNCHANGED <<csv, historic, run0, overlapped, inOrder>>

Step(p) ==
    \/ Parse(p) \/ Check(p) \/ CheckRead(p) \/ RemoveTemp(p)
    \/ UpdExists(p) \/ UpdRead(p) \/ UpdWrite(p)
    \/ ArchiveExists(p) \/ ArchiveRemove(p) \/ Rename(p)

\* runs one after the other, as the scheduler invokes them
Next == Download("A", SeqSheets) \/ Step("A")
Spec == Init /\ [][Next]_vars

\* two runs whose file operations interleave
NextConc == \E p \in Procs : Download(p, ConcSheets) \/ Step(p)
SpecConc == Init /\ [][NextConc]_vars

\* parse_xls alone, on every frame of ParseSheets
InitParse ==
    /\ csv = NoFile
    /\ temp \in {File(s) : s \in ParseSheets}
    /\ historic = TRUE
    /\ archive = [n \in ArchiveNames |-> NoFile]
    /\ pc = [p \in Procs |-> IF p = "A" THEN "parse" ELSE "idle"]
    /\ loc = [p \in Procs |-> NoLocals]
    /\ run0 = [p \in Procs |-> [csv |-> csv, archive |-> archive, sheet |-> NoFile]]
    /\ overlapped = FALSE
    /\ inOrder = TRUE
NextParse == Parse("A")
SpecParse == InitParse /\ [][NextParse]_vars

\* ------------------------------------------------------------ properties

\* the run of p has ended, one way or another
Ended(p) == pc[p] \in {"done", "exists", "error"}

\* the run of p got as far as extracting a snapshot from its download
Parsed(p) == pc[p] \notin {"idle", "parse"} /\ loc[p].what \notin {"fetch", "read"}

Ledger0(p) == read_csv(run0[p].csv)

IsPrefix(a, b) == Len(a) <= Len(b) /\ SubSeq(b, 1, Len(a)) = a

\* the run of p found its report date on the last row of a non-empty ledger
SkipCase(p) ==
    /\ Parsed(p)
    /\ Ledger0(p) # <<>>
    /\ loc[p].snap.date # NoDate
    /\ Ledger0(p)[Len(Ledger0(p))].ActivityDate = loc[p].snap.date

(***************************************************************************)
(* C1.  Idempotent skip: a run whose report date equals the date of the    *)
(* last row of a non-empty ledger ends with the "already exists" outcome,  *)
(* not an error, leaves the ledger and the archive folder as they were and *)
(* deletes the temp download; and only such a run ends that way.           *)
(***************************************************************************)
C1_IdempotentSkip ==
    \A p \in Procs :
        /\ (Ended(p) /\ SkipCase(p)) =>
              /\ pc[p] = "exists"
              /\ csv = run0[p].csv
              /\ archive = run0[p].archive
              /\ ~temp.exists
        /\ pc[p] = "exists" => SkipCase(p)

C1_Witness ==
    /\ pc["A"] = "exists"
    /\ SkipCase("A")
    /\ Len(Ledger) >= 2

(***************************************************************************)
(* C2.  Append-only ledger: a run changes the row count by 0 or 1, and the *)
(* ledger it found is a prefix of the ledger it leaves.                    *)
(***************************************************************************)
C2_AppendOnly ==
    \A p \in Procs :
        pc[p] # "idle" =>
            /\ Len(Ledger) - Len(Ledger0(p)) \in {0, 1}
            /\ IsPrefix(Ledger0(p), Ledger)

C2_Witness ==
    /\ pc["A"] = "done"
    /\ Len(Ledger0("A")) = 2
    /\ Len(Ledger) = 3

(***************************************************************************)
(* C3.  Anchor and comparator: every row after the first holds the daily   *)
(* changes against the row before it and the monthly changes against the   *)
(* first row, and a run never changes the first row it found.              *)
(***************************************************************************)
C3_AnchorComparator ==
    /\ \A i \in 2..Len(Ledger) :
          /\ Ledger[i].RegiDailyChange = Sub(Ledger[i].Registered, Ledger[i - 1].Registered)
          /\ Ledger[i].DailyChange = Sub(Ledger[i].Total, Ledger[i - 1].Total)
          /\ Ledger[i].RegMonthlyChange = Sub(Ledger[i].Registered, Ledger[1].Registered)
          /\ Ledger[i].MonthChange = Sub(Ledger[i].Total, Ledger[1].Total)
    /\ \A p \in Procs : Ledger0(p) # <<>> => Ledger[1] = Ledger0(p)[1]

\* a third row whose comparator and anchor differ, all three numbers present
C3_Witness ==
    /\ Len(Ledger) = 3
    /\ ~Ledger[3].RegiDailyChange.nan
    /\ ~Ledger[3].RegMonthlyChange.nan
    /\ Ledger[3].RegiDailyChange # Ledger[3].RegMonthlyChange
    /\ Ledger[3].DailyChange # Ledger[3].MonthChange

\* a run that extracted a snapshot of numbers with a date
HasSnapshot(p) ==
    /\ Parsed(p)
    /\ loc[p].snap.date # NoDate
    /\ ~loc[p].snap.registered.nan
    /\ ~loc[p].snap.eligible.nan
    /\ ~loc[p].snap.total.nan

(***************************************************************************)
(* C4.  First row on an empty ledger: a run with a dated snapshot against  *)
(* a ledger without rows, the file absent or present, leaves exactly one   *)
(* row, whose four changes are 0 and whose "% of Start" is 100% (or the    *)
(* number 1.000 when the total is 0).                                      *)
(***************************************************************************)
C4_FirstRowOnEmptyLedger ==
    \A p \in Procs :
        (Ended(p) /\ HasSnapshot(p) /\ Ledger0(p) = <<>>) =>
            /\ Len(Ledger) = 1
            /\ Ledger[1].RegiDailyChange = Num(0)
            /\ Ledger[1].DailyChange = Num(0)
            /\ Ledger[1].RegMonthlyChange = Num(0)
            /\ Ledger[1].MonthChange = Num(0)
            /\ Ledger[1].PctOfStart \in {[kind |-> "str", val |-> Num(100)],
                                         [kind |-> "num", val |-> Num(1000)]}

(***************************************************************************)
(* C5.  Exception exits are zero-work: a run that ends in the "Error:"     *)
(* outcome leaves the ledger with the rows it had when the run started.    *)
(***************************************************************************)
C5_ErrorLeavesLedger ==
    \A p \in Procs : pc[p] = "error" => Ledger = Ledger0(p)

\* the rows of the frame that carry a calendar date are in calendar order
Chronological(df) ==
    \A i, j \in 1..Len(df) :
        (i < j /\ StrptimeOk(df[i].ActivityDate) /\ StrptimeOk(df[j].ActivityDate))
            => DateOrd(df[i].ActivityDate) <= DateOrd(df[j].ActivityDate)

(***************************************************************************)
(* C6 as stated.  Chronological order: the rows of every reachable ledger  *)
(* are in the calendar order of their report dates, whatever dates the     *)
(* successive downloads carry.                                             *)
(***************************************************************************)
C6_Chronological == Chronological(Ledger)

(***************************************************************************)
(* C6 amended.  The rows are in calendar order as long as every row was    *)
(* appended with a valid report date not earlier than the date of the row  *)
(* that was last at that time.                                             *)
(***************************************************************************)
C6_ChronologicalIfAppendedInOrder ==
    inOrder => /\ Chronological(Ledger)
               /\ \A i \in 1..Len(Ledger) : StrptimeOk(Ledger[i].ActivityDate)

\* three rows appended in date order, the last two on different days
C6_Witness ==
    /\ inOrder
    /\ Len(Ledger) = 3
    /\ DateOrd(Ledger[2].ActivityDate) < DateOrd(Ledger[3].ActivityDate)

Abs(n) == IF n < 0 THEN -n ELSE n

\* val is x / y * 100 to the nearest 1/scale-th of 100 percent
HoldsPct(val, x, y, scale) ==
    IF x.nan \/ y.nan THEN val.nan
    ELSE ~val.nan /\ 2 * Abs(val.v * y.v - x.v * scale) <= Abs(y.v)

(***************************************************************************)
(* C7.  Percentage type branch: "% Registered of Total" is the number 0    *)
(* exactly when the row's total is 0 and otherwise a percent string of     *)
(* registered / total * 100; "% of Start" is the number 1.000 exactly when *)
(* the anchor row's total is 0 and otherwise a percent string of total /   *)
(* anchor total * 100 rounded to an integer; no run raises a division      *)
(* error.                                                                  *)
(***************************************************************************)
C7_PercentTypeBranch ==
    /\ \A i \in 1..Len(Ledger) :
          LET r == Ledger[i] IN
          /\ (r.PctRegisteredOfTotal.kind = "num") <=> (r.Total = Num(0))
          /\ r.PctRegisteredOfTotal.kind = "num" => r.PctRegisteredOfTotal.val = Num(0)
          /\ r.PctRegisteredOfTotal.kind = "str" =>
                HoldsPct(r.PctRegisteredOfTotal.val, r.Registered, r.Total, 10000)
          /\ (r.PctOfStart.kind = "num") <=> (Ledger[1].Total = Num(0))
          /\ r.PctOfStart.kind = "num" => r.PctOfStart.val = Num(1000)
          /\ r.PctOfStart.kind = "str" =>
                HoldsPct(r.PctOfStart.val, r.Total, Ledger[1].Total, 100)
    /\ \A p \in Procs : loc[p].err # "ZeroDivisionError"

\* a zero anchor followed by a row with a total: both branches of both fields
C7_Witness ==
    /\ Len(Ledger) >= 2
    /\ Ledger[1].Total = Num(0)
    /\ Ledger[1].PctRegisteredOfTotal.kind = "num"
    /\ Ledger[2].PctRegisteredOfTotal.kind = "str"
    /\ ~Ledger[2].PctRegisteredOfTotal.val.nan
    /\ Ledger[2].PctOfStart.kind = "num"

\* the frame gives no usable number for the label: no row contains it, or
\* the value column of the first row that does is missing, empty or holds
\* text that is no number
NoUsableValue(df, label) ==
    LET hits == MaskedRows(df, label)
    IN  \/ hits = <<>>
        \/ Len(hits[1]) < ValueCol + 1
        \/ hits[1][ValueCol + 1].k = "blank"
        \/ (hits[1][ValueCol + 1].k = "text" /\ ~hits[1][ValueCol + 1].ok)

(***************************************************************************)
(* C8.  Extractor zero fallback: for each of the three labels, when the    *)
(* frame gives no usable number for it, parse_xls returns exactly 0.000    *)
(* for that field.                                                         *)
(***************************************************************************)
C8_ZeroFallback ==
    pc["A"] = "check" =>
        /\ NoUsableValue(temp.data, LblRegistered) => loc["A"].snap.registered = Num(0)
        /\ NoUsableValue(temp.data, LblEligible) => loc["A"].snap.eligible = Num(0)
        /\ NoUsableValue(temp.data, LblCombined) => loc["A"].snap.total = Num(0)

DuplicateDate ==
    \E i \in 1..(Len(Ledger) - 1) :
        /\ Ledger[i].ActivityDate # NoDate
        /\ Ledger[i].ActivityDate = Ledger[i + 1].ActivityDate

\* a run failed to read, remove or rename the temp download, which was gone
TempGone ==
    \E p \in Procs :
        /\ pc[p] = "error" /\ loc[p].err = "FileNotFoundError"
        /\ loc[p].what \in {"read", "temp"}

(***************************************************************************)
(* C10.  Concurrent invocations are unsafe: a ledger with two rows for the *)
(* same date in a row, and a run failing on the temp download another run  *)
(* moved or deleted, are reached by two interleaved runs, and by no        *)
(* schedule in which the runs follow one another.                          *)
(***************************************************************************)
C10_UnsafeOnlyWhenInterleaved ==
    (DuplicateDate \/ TempGone) => overlapped

\* both runs passed the duplicate check, both rows were written, and the
\* second run's rename found the temp file gone
C10_Witness ==
    /\ DuplicateDate
    /\ \E p \in Procs :
          /\ pc[p] = "error" /\ loc[p].err = "FileNotFoundError" /\ loc[p].what = "temp"
          /\ loc[p].final_name # <<>>
    /\ \E p \in Procs : pc[p] = "done"

=============================================================================
